---- MODULE Spec2Model ----
(***************************************************************************)
(* A model of litecharts: the Chart / Pane / Series builder objects and    *)
(* the renderer that turns a Chart into one HTML document.                 *)
(*                                                                         *)
(* Python values are tagged records, one field set per Python type, so     *)
(* that values of different types can be told apart.  A mapping (dict) is  *)
(* the sequence of its items [k, v] in insertion order, with no key twice. *)
(* A key is the sequence of its characters, because to_camel_case works on *)
(* the characters of a key.                                                *)
(* A float is kept as a count of halves (h = 3 is 1.5): every float the    *)
(* model feeds to the code is a small dyadic rational, on which IEEE       *)
(* arithmetic followed by int() agrees with exact arithmetic followed by   *)
(* truncation.                                                             *)
(***************************************************************************)
EXTENDS Integers, Sequences, FiniteSets, TLC

VARIABLES
    options,       \* Chart._options
    panes,         \* Chart._panes: sequence of panes, each with its series
    default_pane,  \* Chart._default_pane: the id of a pane, or None
    next_id,       \* the number of objects created so far (fresh identities)
    lwc_cached,    \* whether get_lwc_js's lru_cache holds the library text
    lwc_loads,     \* how many times the library text has been read from the package
    callers,       \* per thread that renders: where it is in its call, calls made
    last           \* the last call made on the chart: operation, arguments, outcome

vars == <<options, panes, default_pane, next_id, lwc_cached, lwc_loads, callers, last>>

(***************************************************************************)
(* Bounds of the model.                                                    *)
(***************************************************************************)
MaxPanes == 3       \* panes of a chart, where the layout is studied
MaxObjects == 3     \* panes and series of a chart, where series are added
MarkerObjects == 3  \* panes and series of a chart, where markers are set
MaxMarkers == 2     \* markers in one create_series_markers call
RenderObjects == 3  \* panes and series of a chart, where series are rendered
MaxPriceLines == 2  \* price lines of a chart
MaxKeys == 2        \* keys of a mapping given to the option translator
MaxPoints == 3      \* points of a chart beyond which update is not called
MaxCallers == 3     \* threads that render the chart
MaxCalls == 2       \* renders of one thread
ShapeObjects == 3   \* panes and series of a chart, where data of several forms is set
TooltipObjects == 4 \* panes and series of a chart, where tooltips are extracted

(***************************************************************************)
(* Python values.                                                          *)
(***************************************************************************)
None == [t |-> "none"]
IntV(i) == [t |-> "int", i |-> i]
FloatV(h) == [t |-> "float", h |-> h]
StrV(s) == [t |-> "str", s |-> s]
BoolV(b) == [t |-> "bool", b |-> b]
DictV(d) == [t |-> "dict", d |-> d]
ListV(l) == [t |-> "list", l |-> l]

EmptyDict == << >>

Item(key, value) == [k |-> key, v |-> value]

Keys(d) == {d[i].k : i \in DOMAIN d}

\* key in d
Has(d, key) == \E i \in DOMAIN d : d[i].k = key

\* dict.get(key, default)
Get(d, key, default) ==
    IF Has(d, key) THEN d[CHOOSE i \in DOMAIN d : d[i].k = key].v ELSE default

\* d[key] = value: an existing key keeps its place, a new key goes last.
Put(d, key, value) ==
    IF Has(d, key)
    THEN [i \in DOMAIN d |-> IF d[i].k = key THEN Item(key, value) ELSE d[i]]
    ELSE Append(d, Item(key, value))

\* The keys the model uses, as character sequences.
kWidth == <<"w", "i", "d", "t", "h">>
kHeight == <<"h", "e", "i", "g", "h", "t">>
kHeightRatio == <<"h", "e", "i", "g", "h", "t", "_", "r", "a", "t", "i", "o">>
kTimeScale == <<"t", "i", "m", "e", "_", "s", "c", "a", "l", "e">>
kVisible == <<"v", "i", "s", "i", "b", "l", "e">>
kTime == <<"t", "i", "m", "e">>
kPosition == <<"p", "o", "s", "i", "t", "i", "o", "n">>
kShape == <<"s", "h", "a", "p", "e">>
kId == <<"i", "d">>
kTooltip == <<"t", "o", "o", "l", "t", "i", "p">>
kTitle == <<"t", "i", "t", "l", "e">>
kFields == <<"f", "i", "e", "l", "d", "s">>
kColor == <<"c", "o", "l", "o", "r">>
kUpColor == <<"u", "p", "_", "c", "o", "l", "o", "r">>
kValue == <<"v", "a", "l", "u", "e">>
kPrice == <<"p", "r", "i", "c", "e">>
kLineWidth == <<"l", "i", "n", "e", "_", "w", "i", "d", "t", "h">>
kTimeVisible == <<"t", "i", "m", "e", "_", "v", "i", "s", "i", "b", "l", "e">>
kOpen == <<"o", "p", "e", "n">>
kHigh == <<"h", "i", "g", "h">>
kLow == <<"l", "o", "w">>
kClose == <<"c", "l", "o", "s", "e">>
kEma20d == <<"e", "m", "a", "_", "2", "0", "d">>
kUnderA == <<"_", "a">>
kVolume == <<"v", "o", "l", "u", "m", "e">>
kUpColorJs == <<"u", "p", "C", "o", "l", "o", "r">>

(***************************************************************************)
(* Integer helpers.                                                        *)
(***************************************************************************)
Abs(a) == IF a < 0 THEN -a ELSE a

\* int(a / b) for b # 0: Python's int() truncates toward zero.
TruncDiv(a, b) ==
    IF (a >= 0) = (b > 0) THEN Abs(a) \div Abs(b) ELSE -(Abs(a) \div Abs(b))

RECURSIVE SumSeq(_)
SumSeq(s) == IF s = << >> THEN 0 ELSE Head(s) + SumSeq(Tail(s))

(***************************************************************************)
(* Chart: the width and height properties.                                 *)
(***************************************************************************)
DefaultWidth == 800
DefaultHeight == 600

\* Chart.width of a chart whose options are opts
\* (bool is a subclass of int: a bool option passes isinstance(result, int)
\* and is returned; as a number True is 1 and False is 0.)
Width(opts) ==
    LET result == Get(opts, kWidth, IntV(DefaultWidth))
    IN  IF result.t = "int" THEN result.i
        ELSE IF result.t = "bool" THEN (IF result.b THEN 1 ELSE 0)
        ELSE DefaultWidth

\* Chart.height of a chart whose options are opts
\* A height that falls back on the width's default.
Height_WidthDefault(opts) ==
    LET result == Get(opts, kHeight, IntV(DefaultWidth))
    IN  IF result.t = "int" THEN result.i
        ELSE IF result.t = "bool" THEN (IF result.b THEN 1 ELSE 0)
        ELSE DefaultWidth

Height(opts) ==
    LET result == Get(opts, kHeight, IntV(DefaultHeight))
    IN  IF result.t = "int" THEN result.i
        ELSE IF result.t = "bool" THEN (IF result.b THEN 1 ELSE 0)
        ELSE DefaultHeight

ChartWidth == Width(options)

ChartHeight == Height(options)

(***************************************************************************)
(* Pane: construction and the height_ratio property.  A ratio is returned  *)
(* in halves: float(result) of an int i is 2*i halves, the default 1.0 is  *)
(* 2 halves.                                                               *)
(***************************************************************************)
NewPane(id, opts) ==
    [id |-> id,
     options |-> IF opts = None THEN EmptyDict ELSE opts.d,
     series |-> << >>]

HeightRatio(pane) ==
    LET result == Get(pane.options, kHeightRatio, FloatV(2))
    IN  IF result.t = "int" THEN 2 * result.i
        ELSE IF result.t = "float" THEN result.h
        ELSE 2

(***************************************************************************)
(* Option translator (convert.py): to_camel_case and convert_options_to_js.*)
(***************************************************************************)
LowerChars ==
    <<"a", "b", "c", "d", "e", "f", "g", "h", "i", "j", "k", "l", "m",
      "n", "o", "p", "q", "r", "s", "t", "u", "v", "w", "x", "y", "z">>
UpperChars ==
    <<"A", "B", "C", "D", "E", "F", "G", "H", "I", "J", "K", "L", "M",
      "N", "O", "P", "Q", "R", "S", "T", "U", "V", "W", "X", "Y", "Z">>

IsLower(c) == \E i \in DOMAIN LowerChars : LowerChars[i] = c
IsUpper(c) == \E i \in DOMAIN UpperChars : UpperChars[i] = c
IsCased(c) == IsLower(c) \/ IsUpper(c)
ToUpper(c) ==
    IF IsLower(c) THEN UpperChars[CHOOSE i \in DOMAIN LowerChars : LowerChars[i] = c]
    ELSE c
ToLower(c) ==
    IF IsUpper(c) THEN LowerChars[CHOOSE i \in DOMAIN UpperChars : UpperChars[i] = c]
    ELSE c

\* name.split("_"): cur is the part being read, acc the parts already closed.
RECURSIVE SplitUnderscore(_, _, _)
SplitUnderscore(name, cur, acc) ==
    IF name = << >> THEN Append(acc, cur)
    ELSE IF Head(name) = "_" THEN SplitUnderscore(Tail(name), << >>, Append(acc, cur))
    ELSE SplitUnderscore(Tail(name), Append(cur, Head(name)), acc)

\* str.title(): a cased character that follows a cased character is lowered,
\* any other cased character is raised, the rest is kept.
RECURSIVE Title(_, _)
Title(p, prev_cased) ==
    IF p = << >> THEN << >>
    ELSE <<IF prev_cased THEN ToLower(Head(p)) ELSE ToUpper(Head(p))>>
             \o Title(Tail(p), IsCased(Head(p)))

RECURSIVE JoinTitled(_)
JoinTitled(parts) ==
    IF parts = << >> THEN << >> ELSE Title(Head(parts), FALSE) \o JoinTitled(Tail(parts))

\* Every part raised, the first one too.
to_camel_case_TitleAll(name) == JoinTitled(SplitUnderscore(name, << >>, << >>))

to_camel_case(name) ==
    LET parts == SplitUnderscore(name, << >>, << >>)
    IN  Head(parts) \o JoinTitled(Tail(parts))

\* _ENUM_VALUE_CONVERSIONS.get(value, value)
EnumValueConversion(value) ==
    CASE value = "above_bar" -> "aboveBar"
      [] value = "below_bar" -> "belowBar"
      [] value = "in_bar" -> "inBar"
      [] value = "arrow_up" -> "arrowUp"
      [] value = "arrow_down" -> "arrowDown"
      [] OTHER -> value

RECURSIVE ConvertItems(_, _)
convert_options_to_js(opts) == ConvertItems(opts, EmptyDict)

\* The loop of convert_options_to_js over options.items(), result being built.
ConvertItems(items, result) ==
    IF items = << >> THEN result
    ELSE LET key == Head(items).k
             value == Head(items).v
             camel_key == to_camel_case(key)
             converted ==
                 IF value.t = "dict" THEN DictV(convert_options_to_js(value.d))
                 ELSE IF value.t = "str" THEN StrV(EnumValueConversion(value.s))
                 ELSE value
         IN  ConvertItems(Tail(items), Put(result, camel_key, converted))

\* convert_options_to_js_list
convert_options_to_js_list(items) ==
    [i \in DOMAIN items |-> convert_options_to_js(items[i])]

(***************************************************************************)
(* Time coercion (convert.py, to_unix_timestamp).  The result is           *)
(* [exc, v]: the exception raised ("" when none) and the value returned.   *)
(* datetime.fromisoformat and calendar.timegm are the standard library's:  *)
(* IsoEpoch lists what they give for the strings the model uses; any other *)
(* string is not ISO-8601 and makes fromisoformat raise ValueError.        *)
(***************************************************************************)
IsoEpoch ==
    <<Item("1970-01-01T00:00:02Z", 2), Item("1970-01-01T00:00:03+00:00", 3)>>

\* A float that is returned as it is.
IntOfFloat_Kept(h) == FloatV(h)

\* int(time_value) of a float of h halves
IntOfFloat(h) == IntV(TruncDiv(h, 2))

\* bool is a subclass of int: isinstance(True, int) holds, and a bool is
\* returned as it is.
to_unix_timestamp(time_value) ==
    IF time_value.t \in {"int", "bool"} THEN [exc |-> "", v |-> time_value]
    ELSE IF time_value.t = "float"
    THEN [exc |-> "", v |-> IntOfFloat(time_value.h)]
    ELSE IF time_value.t = "str"
    THEN IF Has(IsoEpoch, time_value.s)
         THEN [exc |-> "", v |-> IntV(Get(IsoEpoch, time_value.s, 0))]
         ELSE [exc |-> "ValueError", v |-> None]
    ELSE [exc |-> "TypeError", v |-> None]

(***************************************************************************)
(* Series (series.py).                                                     *)
(***************************************************************************)
SeriesKinds == {"Candlestick", "Line", "Area", "Bar", "Histogram", "Baseline"}

\* BaseSeries.__init__ with the subclass's _series_type
NewSeries(id, kind, opts) ==
    [id |-> id,
     series_type |-> kind,
     options |-> IF opts = None THEN EmptyDict ELSE opts.d,
     data |-> << >>,
     markers |-> << >>,
     price_lines |-> << >>]

\* The loop of create_series_markers over the markers still to store, acc
\* being series._markers: a marker whose time cannot be coerced ends the
\* loop with the exception, the markers stored before it staying stored.
RECURSIVE StoreMarkers(_, _)
StoreMarkers(markers, acc) ==
    IF markers = << >> THEN [exc |-> "", markers |-> acc]
    ELSE LET marker == Head(markers)
             coerced == to_unix_timestamp(Get(marker, kTime, None))
         IN  IF ~Has(marker, kTime)
             THEN StoreMarkers(Tail(markers), Append(acc, marker))
             ELSE IF coerced.exc # "" THEN [exc |-> coerced.exc, markers |-> acc]
             ELSE StoreMarkers(Tail(markers),
                               Append(acc, Put(marker, kTime, coerced.v)))

\* series._markers = [] at the start of create_series_markers: the list the
\* loop appends to, old being the list stored before.
MarkersReset_Keep(old) == old

MarkersReset(old) == << >>

\* The loop of _convert_list_of_dicts over the records still to convert, a
\* record without a time field being stored as it is.  The result is
\* [exc, data].
RECURSIVE ConvertListOfDicts(_, _)
ConvertListOfDicts(data, result) ==
    IF data = << >> THEN [exc |-> "", data |-> result]
    ELSE LET item == Head(data)
             coerced == to_unix_timestamp(Get(item, kTime, None))
         IN  IF ~Has(item, kTime)
             THEN ConvertListOfDicts(Tail(data), Append(result, item))
             ELSE IF coerced.exc # "" THEN [exc |-> coerced.exc, data |-> result]
             ELSE ConvertListOfDicts(Tail(data),
                                     Append(result, Put(item, kTime, coerced.v)))

\* float(x) of a number
FloatOf(x) ==
    IF x.t = "int" THEN FloatV(2 * x.i)
    ELSE IF x.t = "bool" THEN FloatV(IF x.b THEN 2 ELSE 0)
    ELSE x

\* The loop of _convert_numpy_to_ohlc over the rows of arr.tolist() still to
\* convert.  The result is [exc, data].
RECURSIVE ConvertNumpyToOhlc(_, _)
ConvertNumpyToOhlc(rows, result) ==
    IF rows = << >> THEN [exc |-> "", data |-> result]
    ELSE LET row == Head(rows)
             coerced == to_unix_timestamp(row[1])
         IN  IF Len(row) >= 5
             THEN IF coerced.exc # "" THEN [exc |-> coerced.exc, data |-> result]
                  ELSE ConvertNumpyToOhlc(Tail(rows),
                           Append(result,
                               <<Item(kTime, coerced.v), Item(kOpen, FloatOf(row[2])),
                                 Item(kHigh, FloatOf(row[3])), Item(kLow, FloatOf(row[4])),
                                 Item(kClose, FloatOf(row[5]))>>
                               \o (IF Len(row) >= 6
                                   THEN <<Item(kVolume, FloatOf(row[6]))>> ELSE << >>)))
             ELSE IF Len(row) = 2
             THEN IF coerced.exc # "" THEN [exc |-> coerced.exc, data |-> result]
                  ELSE ConvertNumpyToOhlc(Tail(rows),
                           Append(result, <<Item(kTime, coerced.v),
                                            Item(kValue, FloatOf(row[2]))>>))
             ELSE [exc |-> "ValueError", data |-> result]

\* A set_data that keeps the points stored before.
DataAfterSetData_Extend(old, converted) == old \o converted

\* self._data = self._convert_data(data)
DataAfterSetData(old, converted) == converted

\* An update that normalizes the caller's mapping in place.
BarCopy_Alias(bar) == [shared |-> TRUE, d |-> bar]

\* bar.copy(): a new mapping, which the caller's mapping does not share
BarCopy(bar) == [shared |-> FALSE, d |-> bar]

(***************************************************************************)
(* Renderer (render.py).  A document is a record: whether it is the        *)
(* placeholder, its containers, whether the library text is embedded, and  *)
(* the statements of its script in the order they are written.  A          *)
(* statement holds the values the code hands to json.dumps.  A JavaScript  *)
(* variable is named after the id of the pane or series it stands for.     *)
(***************************************************************************)
\* A renderer that assigns the data of a series only when it has some.
render_series_js_DataIfAny(series, chart_var) ==
    <<[stmt |-> "addSeries", var |-> series.id, chart |-> chart_var,
       kind |-> series.series_type,
       options |-> convert_options_to_js(series.options)]>>
    \o (IF series.data # << >>
        THEN <<[stmt |-> "setData", var |-> series.id, data |-> series.data]>>
        ELSE << >>)
    \o (IF series.markers # << >>
        THEN <<[stmt |-> "setMarkers", var |-> series.id,
                markers |-> convert_options_to_js_list(series.markers)]>>
        ELSE << >>)

\* _render_series_js
render_series_js(series, chart_var) ==
    <<[stmt |-> "addSeries", var |-> series.id, chart |-> chart_var,
       kind |-> series.series_type,
       options |-> convert_options_to_js(series.options)],
      [stmt |-> "setData", var |-> series.id, data |-> series.data]>>
    \o (IF series.markers # << >>
        THEN <<[stmt |-> "setMarkers", var |-> series.id,
                markers |-> convert_options_to_js_list(series.markers)]>>
        ELSE << >>)

\* A last pane sized by its ratio like the others, not by what remains.
LastPaneHeight_Proportional(total_height, pane, total_ratio, remaining) ==
    IF total_ratio = 0 THEN 0
    ELSE TruncDiv(total_height * HeightRatio(pane), total_ratio)

\* The height the last pane is given.
LastPaneHeight(total_height, pane, total_ratio, remaining) == remaining

\* The loop of _calculate_pane_heights from pane i on (1-based).
RECURSIVE HeightsFrom(_, _, _, _, _, _)
HeightsFrom(ps, total_height, total_ratio, i, remaining, heights) ==
    IF i > Len(ps) THEN [exc |-> "", heights |-> heights]
    ELSE IF i = Len(ps)
    THEN HeightsFrom(ps, total_height, total_ratio, i + 1, remaining,
             Append(heights, LastPaneHeight(total_height, ps[i], total_ratio, remaining)))
    ELSE IF total_ratio = 0 THEN [exc |-> "ZeroDivisionError", heights |-> heights]
    ELSE LET height == TruncDiv(total_height * HeightRatio(ps[i]), total_ratio)
         IN  HeightsFrom(ps, total_height, total_ratio, i + 1, remaining - height,
                         Append(heights, height))

calculate_pane_heights(ps, total_height) ==
    LET total_ratio == SumSeq([i \in DOMAIN ps |-> HeightRatio(ps[i])])
    IN  HeightsFrom(ps, total_height, total_ratio, 1, total_height, << >>)

\* A handler that updates every pane, its own included.
SyncTargets_All(chart_vars, i) ==
    [j \in DOMAIN chart_vars |-> [j |-> j, v |-> chart_vars[j]]]

\* The panes a pane's subscription handler updates.
SyncTargets(chart_vars, i) ==
    SelectSeq([j \in DOMAIN chart_vars |-> [j |-> j, v |-> chart_vars[j]]],
              LAMBDA e : e.j # i)

\* _render_time_sync_js
render_time_sync_js(chart_vars) ==
    IF Len(chart_vars) < 2 THEN << >>
    ELSE [i \in DOMAIN chart_vars |->
            [stmt |-> "subscribeVisibleLogicalRangeChange", var |-> chart_vars[i],
             targets |-> LET others == SyncTargets(chart_vars, i)
                         IN  [n \in DOMAIN others |-> others[n].v]]]

\* A dict() that hands back the mapping it was given.
OptionsCopy_Alias(d) == [shared |-> TRUE, d |-> d]

\* dict(d) of a mapping d: a new mapping, which d does not share
OptionsCopy(d) == [shared |-> FALSE, d |-> d]

\* dict(value): a mapping is copied, the empty string gives the empty
\* mapping, any other string raises ValueError (its elements are no pairs),
\* a value that cannot be iterated raises TypeError.  The result is [exc, d].
DictOf(value) ==
    IF value.t = "dict" THEN [exc |-> "", d |-> value.d]
    ELSE IF value.t = "str"
    THEN IF value.s = "" THEN [exc |-> "", d |-> EmptyDict]
         ELSE [exc |-> "ValueError", d |-> EmptyDict]
    ELSE [exc |-> "TypeError", d |-> EmptyDict]

\* A renderer that hides the time scale of every pane.
HidesTimeScale_All(i, n) == TRUE

\* Whether pane i of n has its time scale hidden: every pane but the last
\* (i is 1-based, render_chart's i + 1).
HidesTimeScale(i, n) == i < n

\* The options of the library instance of pane i of n (i is 1-based,
\* render_chart's i + 1), chart_options being the chart's options when the
\* loop reaches the pane.  The result is [exc, chart_options, pane_options]:
\* the chart's options afterwards, and the options before translation.
PaneOptions(chart_options, heights, i, n) ==
    LET copy == OptionsCopy(chart_options)
        sized == Put(Put(copy.d, kWidth, IntV(Width(chart_options))),
                     kHeight, IntV(heights[i]))
        chart_sized == IF copy.shared THEN sized ELSE chart_options
        has == Has(sized, kTimeScale)
        source == DictOf(Get(sized, kTimeScale, DictV(EmptyDict)))
        ts_copy == OptionsCopy(source.d)
        time_scale == Put(ts_copy.d, kVisible, BoolV(FALSE))
        merged == Put(sized, kTimeScale, DictV(time_scale))
    IN  IF ~HidesTimeScale(i, n)
        THEN [exc |-> "", chart_options |-> chart_sized, pane_options |-> sized]
        ELSE IF source.exc # ""
        THEN [exc |-> source.exc, chart_options |-> chart_sized, pane_options |-> sized]
        ELSE [exc |-> "",
              chart_options |->
                  IF copy.shared THEN merged
                  ELSE IF ts_copy.shared /\ has
                  THEN Put(chart_sized, kTimeScale, DictV(time_scale))
                  ELSE chart_sized,
              pane_options |-> merged]

RECURSIVE SeriesStatements(_, _)
SeriesStatements(series, chart_var) ==
    IF series = << >> THEN << >>
    ELSE render_series_js(Head(series), chart_var)
             \o SeriesStatements(Tail(series), chart_var)

\* The loop of render_chart from pane i on, chart_options being the chart's
\* options and script the statements written when the loop reaches the pane.
\* The result is [exc, options, script].
RECURSIVE PaneStatements(_, _, _, _, _)
PaneStatements(ps, heights, i, chart_options, script) ==
    IF i > Len(ps) THEN [exc |-> "", options |-> chart_options, script |-> script]
    ELSE LET po == PaneOptions(chart_options, heights, i, Len(ps))
         IN  IF po.exc # ""
             THEN [exc |-> po.exc, options |-> po.chart_options, script |-> script]
             ELSE PaneStatements(ps, heights, i + 1, po.chart_options,
                      script
                      \o <<[stmt |-> "createChart", var |-> ps[i].id,
                            container |-> i - 1,
                            options |-> convert_options_to_js(po.pane_options)]>>
                      \o SeriesStatements(ps[i].series, ps[i].id))

\* A placeholder whose width and height are exchanged.
PlaceholderDocument_Swapped ==
    [placeholder |-> TRUE,
     container |-> [sized |-> TRUE, width |-> ChartHeight, height |-> ChartWidth],
     notice |-> "No data to display",
     pane_divs |-> << >>,
     lwc |-> FALSE,
     script |-> << >>]

\* The document of a chart without panes.
PlaceholderDocument ==
    [placeholder |-> TRUE,
     container |-> [sized |-> TRUE, width |-> ChartWidth, height |-> ChartHeight],
     notice |-> "No data to display",
     pane_divs |-> << >>,
     lwc |-> FALSE,
     script |-> << >>]

\* A script that begins with the synchronization statements.
AllChartJs_SyncFirst(chart_js, sync_js) == sync_js \o chart_js

\* all_chart_js: the pane blocks, then the synchronization statements.
AllChartJs(chart_js, sync_js) == chart_js \o sync_js

\* render_chart, after get_lwc_js has returned.  The result is
\* [exc, doc, options], options being the chart's options afterwards.
render_chart ==
    IF panes = << >>
    THEN [exc |-> "", doc |-> PlaceholderDocument, options |-> options]
    ELSE LET h == calculate_pane_heights(panes, ChartHeight)
             chart_vars == [i \in DOMAIN panes |-> panes[i].id]
             js == PaneStatements(panes, h.heights, 1, options, << >>)
         IN  IF h.exc # "" THEN [exc |-> h.exc, doc |-> None, options |-> options]
             ELSE IF js.exc # ""
             THEN [exc |-> js.exc, doc |-> None, options |-> js.options]
             ELSE [exc |-> "",
                   options |-> js.options,
                   doc |-> [placeholder |-> FALSE,
                            container |-> [sized |-> FALSE],
                            notice |-> "",
                            pane_divs |-> [i \in DOMAIN panes |->
                                [index |-> i - 1, width |-> ChartWidth,
                                 height |-> h.heights[i]]],
                            lwc |-> TRUE,
                            script |-> AllChartJs(js.script,
                                           render_time_sync_js(chart_vars))]]

(***************************************************************************)
(* Calls on a pane (pane.py).  Python looks a method up by name when it is *)
(* called: PaneMethods are the methods class Pane defines, each with the   *)
(* series class it constructs; a call of any other name raises             *)
(* AttributeError before anything else happens.  The result is             *)
(* [exc, panes, ret]: the exception, the panes afterwards and the id of    *)
(* the series returned.                                                    *)
(***************************************************************************)
PaneMethods ==
    <<Item("add_candlestick_series", "Candlestick"),
      Item("add_line_series", "Line"),
      Item("add_area_series", "Area"),
      Item("add_bar_series", "Bar"),
      Item("add_histogram_series", "Histogram"),
      Item("add_baseline_series", "Baseline")>>

\* pane.<method>(options), pane being ps[p]
PaneCall(ps, p, method, opts, id) ==
    IF ~Has(PaneMethods, method)
    THEN [exc |-> "AttributeError", panes |-> ps, ret |-> None]
    ELSE LET series == NewSeries(id, Get(PaneMethods, method, ""), opts)
         IN  [exc |-> "",
              panes |-> [ps EXCEPT ![p].series = Append(@, series)],
              ret |-> IntV(id)]

SeriesCount == SumSeq([i \in DOMAIN panes |-> Len(panes[i].series)])

(***************************************************************************)
(* The state after Chart(options).                                         *)
(***************************************************************************)
\* The threads that may render.
Callers == 1 .. MaxCallers

InitChart(opts) ==
    /\ options = (IF opts = None THEN EmptyDict ELSE opts.d)
    /\ panes = << >>
    /\ default_pane = None
    /\ next_id = 1
    /\ lwc_cached = FALSE
    /\ lwc_loads = 0
    /\ callers = [t \in Callers |-> [pc |-> "idle", calls |-> 0]]
    /\ last = [op |-> "Chart", exc |-> "", args |-> [options |-> opts], ret |-> None]

(***************************************************************************)
(* Chart.add_pane(options)                                                 *)
(***************************************************************************)
AddPane(opts) ==
    /\ panes' = Append(panes, NewPane(next_id, opts))
    /\ next_id' = next_id + 1
    /\ last' = [op |-> "add_pane", exc |-> "", args |-> [options |-> opts],
                ret |-> IntV(next_id)]
    /\ UNCHANGED <<options, default_pane, lwc_cached, lwc_loads, callers>>

(***************************************************************************)
(* Chart.add_series(series_type, options, pane_index)                      *)
(***************************************************************************)
\* A range check without its lower bound.
PaneIndexInRange_NoLowerBound(pane_index, n) == ~(pane_index >= n)

\* the range check on an explicit pane_index
PaneIndexInRange(pane_index, n) == ~(pane_index < 0 \/ pane_index >= n)

\* whether list[index] finds an element in a list of n (it raises IndexError
\* otherwise); a negative index counts from the end
ListIndexOk(index, n) == -n <= index /\ index < n

\* 1-based position of list[index]
ListPosition(index, n) == IF index < 0 THEN n + index + 1 ELSE index + 1

\* the position in ps of the pane whose id is given
PanePosition(ps, id) == CHOOSE i \in DOMAIN ps : ps[i].id = id

\* A default pane that is the chart's first pane when the chart has panes.
GetDefaultPane_FirstPane(ps, dp, id) ==
    IF dp # None THEN [panes |-> ps, pane_id |-> dp.i, next_id |-> id]
    ELSE IF ps # << >> THEN [panes |-> ps, pane_id |-> ps[1].id, next_id |-> id]
    ELSE [panes |-> Append(ps, NewPane(id, None)), pane_id |-> id, next_id |-> id + 1]

\* _get_default_pane on a chart whose panes are ps and whose _default_pane
\* is dp, id being the identity of the next object created.  The result is
\* [panes, pane_id, next_id]: the panes afterwards, the identity of the pane
\* returned, the identity of the next object.
GetDefaultPane(ps, dp, id) ==
    IF dp = None
    THEN [panes |-> Append(ps, NewPane(id, None)), pane_id |-> id, next_id |-> id + 1]
    ELSE [panes |-> ps, pane_id |-> dp.i, next_id |-> id]

ChartAddSeries(kind, opts, pane_index) ==
    LET args == [series_type |-> kind, options |-> opts, pane_index |-> pane_index]
    IN
    IF pane_index # None
    THEN IF ~PaneIndexInRange(pane_index.i, Len(panes))
            \/ ~ListIndexOk(pane_index.i, Len(panes))
         THEN /\ last' = [op |-> "Chart.add_series", exc |-> "IndexError",
                          args |-> args, ret |-> None]
              /\ UNCHANGED <<options, panes, default_pane, next_id, lwc_cached, lwc_loads, callers>>
         ELSE LET r == PaneCall(panes, ListPosition(pane_index.i, Len(panes)),
                                "add_series", opts, next_id)
              IN  /\ panes' = r.panes
                  /\ next_id' = IF r.exc = "" THEN next_id + 1 ELSE next_id
                  /\ last' = [op |-> "Chart.add_series", exc |-> r.exc,
                              args |-> args, ret |-> r.ret]
                  /\ UNCHANGED <<options, default_pane, lwc_cached, lwc_loads, callers>>
    ELSE \* _get_default_pane, then the call on the pane it returns
         LET got == GetDefaultPane(panes, default_pane, next_id)
             with_default == got.panes
             pane_id == got.pane_id
             id == got.next_id
             r == PaneCall(with_default, PanePosition(with_default, pane_id),
                           "add_series", opts, id)
         IN  /\ default_pane' = IntV(pane_id)
             /\ panes' = r.panes
             /\ next_id' = IF r.exc = "" THEN id + 1 ELSE id
             /\ last' = [op |-> "Chart.add_series", exc |-> r.exc,
                         args |-> args, ret |-> r.ret]
             /\ UNCHANGED <<options, lwc_cached, lwc_loads, callers>>

(***************************************************************************)
(* Calls on a pane of the chart: pane.add_series(series_type, options),    *)
(* which the tests make, and the six methods class Pane defines.           *)
(***************************************************************************)
PaneMethodCall(p, method, args, opts) ==
    LET r == PaneCall(panes, p, method, opts, next_id)
    IN  /\ panes' = r.panes
        /\ next_id' = IF r.exc = "" THEN next_id + 1 ELSE next_id
        /\ last' = [op |-> "Pane." \o method, exc |-> r.exc,
                    args |-> [pane |-> p] @@ args, ret |-> r.ret]
        /\ UNCHANGED <<options, default_pane, lwc_cached, lwc_loads, callers>>

PaneAddSeries(p, kind, opts) ==
    PaneMethodCall(p, "add_series", [series_type |-> kind, options |-> opts], opts)

AddCandlestickSeries(p, opts) ==
    PaneMethodCall(p, "add_candlestick_series", [options |-> opts], opts)

AddLineSeries(p, opts) ==
    PaneMethodCall(p, "add_line_series", [options |-> opts], opts)

AddAreaSeries(p, opts) ==
    PaneMethodCall(p, "add_area_series", [options |-> opts], opts)

AddBarSeries(p, opts) ==
    PaneMethodCall(p, "add_bar_series", [options |-> opts], opts)

AddHistogramSeries(p, opts) ==
    PaneMethodCall(p, "add_histogram_series", [options |-> opts], opts)

AddBaselineSeries(p, opts) ==
    PaneMethodCall(p, "add_baseline_series", [options |-> opts], opts)

(***************************************************************************)
(* create_series_markers(series, markers), series being the s-th series of *)
(* pane p.                                                                 *)
(***************************************************************************)
CreateSeriesMarkers(p, s, markers) ==
    LET r == StoreMarkers(markers, MarkersReset(panes[p].series[s].markers))
    IN  /\ panes' = [panes EXCEPT ![p].series[s].markers = r.markers]
        /\ last' = [op |-> "create_series_markers", exc |-> r.exc,
                    args |-> [pane |-> p, series |-> s, markers |-> markers],
                    ret |-> None]
        /\ UNCHANGED <<options, default_pane, next_id, lwc_cached, lwc_loads, callers>>

(***************************************************************************)
(* series.set_data(data), data being a list of mappings: the conversion    *)
(* runs first, and the data is assigned only if it returned.               *)
(***************************************************************************)
SetData(p, s, data) ==
    LET r == ConvertListOfDicts(data, << >>)
        old == panes[p].series[s].data
    IN  /\ panes' = [panes EXCEPT ![p].series[s].data =
                         IF r.exc = "" THEN DataAfterSetData(old, r.data) ELSE old]
        /\ last' = [op |-> "set_data", exc |-> r.exc,
                    args |-> [pane |-> p, series |-> s, data |-> data],
                    ret |-> None]
        /\ UNCHANGED <<options, default_pane, next_id, lwc_cached, lwc_loads, callers>>

(***************************************************************************)
(* series.update(bar).  ret is the caller's mapping as it is after the     *)
(* call.                                                                   *)
(***************************************************************************)
Update(p, s, bar) ==
    LET copy == BarCopy(bar)
        coerced == to_unix_timestamp(Get(copy.d, kTime, None))
        raised == Has(copy.d, kTime) /\ coerced.exc # ""
        normalized == IF Has(copy.d, kTime) /\ ~raised
                      THEN Put(copy.d, kTime, coerced.v)
                      ELSE copy.d
    IN  /\ panes' = [panes EXCEPT ![p].series[s].data =
                         IF raised THEN @ ELSE Append(@, normalized)]
        /\ last' = [op |-> "update", exc |-> IF raised THEN coerced.exc ELSE "",
                    args |-> [pane |-> p, series |-> s, bar |-> bar],
                    ret |-> DictV(IF copy.shared THEN normalized ELSE bar)]
        /\ UNCHANGED <<options, default_pane, next_id, lwc_cached, lwc_loads, callers>>

(***************************************************************************)
(* series.create_price_line(options)                                       *)
(***************************************************************************)
CreatePriceLine(p, s, opts) ==
    /\ panes' = [panes EXCEPT ![p].series[s].price_lines = Append(@, opts)]
    /\ last' = [op |-> "create_price_line", exc |-> "",
                args |-> [pane |-> p, series |-> s, options |-> opts],
                ret |-> None]
    /\ UNCHANGED <<options, default_pane, next_id, lwc_cached, lwc_loads, callers>>

(***************************************************************************)
(* Chart.to_html(): render_chart(chart).  get_lwc_js runs first and leaves *)
(* the library text cached; the packaged text is taken to be present.      *)
(***************************************************************************)
ToHtml ==
    LET r == render_chart
    IN  /\ lwc_cached' = TRUE
        /\ lwc_loads' = (IF lwc_cached THEN lwc_loads ELSE lwc_loads + 1)
        /\ options' = r.options
        /\ last' = [op |-> "to_html", exc |-> r.exc, args |-> << >>, ret |-> r.doc]
        /\ UNCHANGED <<panes, default_pane, next_id, callers>>

(***************************************************************************)
(* Inputs.                                                                 *)
(***************************************************************************)
Dict1(k1, v1) == <<Item(k1, v1)>>
Dict2(k1, v1, k2, v2) == <<Item(k1, v1), Item(k2, v2)>>

\* a time scale with two sub-options
TimeScaleOptions == DictV(Dict2(kVisible, BoolV(TRUE), kTimeVisible, BoolV(TRUE)))

\* Chart(options): no options, a height, a width and a height, a height of
\* the wrong type, a time scale and a width, a time scale that is no mapping
LayoutChartOptions ==
    {None,
     DictV(Dict1(kHeight, IntV(7))),
     DictV(Dict2(kWidth, IntV(5), kHeight, IntV(100))),
     DictV(Dict2(kHeight, StrV("tall"), kWidth, FloatV(801))),
     DictV(Dict2(kTimeScale, TimeScaleOptions, kWidth, IntV(5))),
     DictV(Dict1(kTimeScale, StrV("utc")))}

\* add_pane(options): no options, a ratio that is no number, and the ratios
\* 0.0, 0.5, 3 and -1.0
LayoutPaneOptions ==
    {None,
     DictV(Dict1(kHeightRatio, StrV("wide"))),
     DictV(Dict1(kHeightRatio, FloatV(0))),
     DictV(Dict1(kHeightRatio, FloatV(1))),
     DictV(Dict1(kHeightRatio, IntV(3))),
     DictV(Dict1(kHeightRatio, FloatV(-2)))}

BuildSeriesOptions == {None, DictV(Dict1(kUpColor, StrV("#00ff00")))}

\* pane_index: omitted, or an index from below to beyond the panes
BuildPaneIndexes == {None} \cup {IntV(i) : i \in -1 .. MaxObjects}

(***************************************************************************)
(* Building a chart: panes and series are added, by every call the chart   *)
(* and its panes are given, until the chart has MaxObjects of them.        *)
(***************************************************************************)
Init == InitChart(None)

ObjectsLeft == MaxObjects - (next_id - 1)

BuildAddPane ==
    /\ ObjectsLeft >= 1
    /\ AddPane(None)

BuildChartAddSeries ==
    \E kind \in SeriesKinds, pane_index \in BuildPaneIndexes :
        /\ (pane_index = None /\ default_pane = None) => ObjectsLeft >= 1
        /\ ChartAddSeries(kind, None, pane_index)

BuildPaneAddSeries ==
    \E p \in DOMAIN panes, kind \in SeriesKinds : PaneAddSeries(p, kind, None)

BuildAddCandlestickSeries ==
    /\ ObjectsLeft >= 1
    /\ \E p \in DOMAIN panes, opts \in BuildSeriesOptions : AddCandlestickSeries(p, opts)

BuildAddLineSeries ==
    /\ ObjectsLeft >= 1
    /\ \E p \in DOMAIN panes, opts \in BuildSeriesOptions : AddLineSeries(p, opts)

BuildAddAreaSeries ==
    /\ ObjectsLeft >= 1
    /\ \E p \in DOMAIN panes, opts \in BuildSeriesOptions : AddAreaSeries(p, opts)

BuildAddBarSeries ==
    /\ ObjectsLeft >= 1
    /\ \E p \in DOMAIN panes, opts \in BuildSeriesOptions : AddBarSeries(p, opts)

BuildAddHistogramSeries ==
    /\ ObjectsLeft >= 1
    /\ \E p \in DOMAIN panes, opts \in BuildSeriesOptions : AddHistogramSeries(p, opts)

BuildAddBaselineSeries ==
    /\ ObjectsLeft >= 1
    /\ \E p \in DOMAIN panes, opts \in BuildSeriesOptions : AddBaselineSeries(p, opts)

Next ==
    \/ BuildAddPane
    \/ BuildChartAddSeries
    \/ BuildPaneAddSeries
    \/ BuildAddCandlestickSeries
    \/ BuildAddLineSeries
    \/ BuildAddAreaSeries
    \/ BuildAddBarSeries
    \/ BuildAddHistogramSeries
    \/ BuildAddBaselineSeries

Spec == Init /\ [][Next]_vars

(***************************************************************************)
(* Laying a chart out: a chart of any of the option sets is given panes of *)
(* any of the height ratios, and is rendered.                              *)
(***************************************************************************)
InitLayout == \E opts \in LayoutChartOptions : InitChart(opts)

LayoutAddPane ==
    /\ Len(panes) < MaxPanes
    /\ \E opts \in LayoutPaneOptions : AddPane(opts)

NextLayout ==
    \/ LayoutAddPane
    \/ ToHtml

SpecLayout == InitLayout /\ [][NextLayout]_vars

(***************************************************************************)
(* Marking a chart: series of two kinds are added to panes, marker lists   *)
(* are set on them, and the chart is rendered.                             *)
(***************************************************************************)
kPnL == <<"P", "n", "L">>

TooltipSell ==
    DictV(<<Item(kTitle, StrV("Sell Signal")),
            Item(kFields, DictV(Dict1(kPnL, StrV("+$50"))))>>)

\* a marker with neither id nor tooltip
MarkerPlain ==
    <<Item(kTime, IntV(1)), Item(kPosition, StrV("above_bar")),
      Item(kShape, StrV("circle"))>>

\* a marker with an id and a tooltip, its time the float 2.5
MarkerTooltip ==
    <<Item(kTime, FloatV(5)), Item(kPosition, StrV("below_bar")),
      Item(kShape, StrV("arrow_down")), Item(kId, StrV("trade-1")),
      Item(kTooltip, TooltipSell)>>

\* a marker with an id and no tooltip, its time an ISO-8601 string
MarkerIdOnly ==
    <<Item(kTime, StrV("1970-01-01T00:00:03+00:00")), Item(kId, StrV("m-3"))>>

\* a marker whose time is None
MarkerBadTime ==
    <<Item(kTime, None), Item(kPosition, StrV("in_bar"))>>

MarkerInputs == {MarkerPlain, MarkerTooltip, MarkerIdOnly, MarkerBadTime}

MarkerLists == UNION {[1 .. n -> MarkerInputs] : n \in 0 .. MaxMarkers}

InitMarkers == InitChart(None)

MarkerObjectsLeft == MarkerObjects - (next_id - 1)

MarkersAddPane ==
    /\ MarkerObjectsLeft >= 1
    /\ AddPane(None)

MarkersAddCandlestickSeries ==
    /\ MarkerObjectsLeft >= 1
    /\ \E p \in DOMAIN panes : AddCandlestickSeries(p, None)

MarkersAddLineSeries ==
    /\ MarkerObjectsLeft >= 1
    /\ \E p \in DOMAIN panes : AddLineSeries(p, None)

MarkersCreateSeriesMarkers ==
    \E p \in DOMAIN panes :
        \E s \in DOMAIN panes[p].series, markers \in MarkerLists :
            CreateSeriesMarkers(p, s, markers)

NextMarkers ==
    \/ MarkersAddPane
    \/ MarkersAddCandlestickSeries
    \/ MarkersAddLineSeries
    \/ MarkersCreateSeriesMarkers
    \/ ToHtml

SpecMarkers == InitMarkers /\ [][NextMarkers]_vars

(***************************************************************************)
(* Rendering series: a chart, with or without options of its own, is given *)
(* panes and candlestick series; the series are given data, markers and    *)
(* price lines; the chart is rendered.                                     *)
(***************************************************************************)
\* a time scale with two sub-options, and a width
RenderChartOptions ==
    {None, DictV(Dict2(kTimeScale, TimeScaleOptions, kWidth, IntV(5)))}

\* an OHLC record at the given time
OhlcPoint(time) ==
    <<Item(kTime, time), Item(kOpen, FloatV(200)), Item(kHigh, FloatV(210)),
      Item(kLow, FloatV(190)), Item(kClose, FloatV(205))>>

\* a list of three records
RenderDataLists == {<<OhlcPoint(IntV(1)), OhlcPoint(FloatV(5)), OhlcPoint(IntV(3))>>}

PriceLineSupport ==
    <<Item(kPrice, FloatV(200)), Item(kLineWidth, IntV(2)),
      Item(kTitle, StrV("Support"))>>

PriceLineResistance == <<Item(kPrice, FloatV(230))>>

\* the price line a series is given after the given ones: a support line
\* first, resistance lines after it
NextPriceLine(price_lines) ==
    IF price_lines = << >> THEN PriceLineSupport ELSE PriceLineResistance

PriceLineCount ==
    SumSeq([p \in DOMAIN panes |->
               SumSeq([s \in DOMAIN panes[p].series |->
                          Len(panes[p].series[s].price_lines)])])

InitRender == \E opts \in RenderChartOptions : InitChart(opts)

RenderObjectsLeft == RenderObjects - (next_id - 1)

RenderAddPane ==
    /\ RenderObjectsLeft >= 1
    /\ AddPane(None)

RenderAddCandlestickSeries ==
    /\ RenderObjectsLeft >= 1
    /\ \E p \in DOMAIN panes : AddCandlestickSeries(p, None)

RenderSetData ==
    \E p \in DOMAIN panes :
        \E s \in DOMAIN panes[p].series, data \in RenderDataLists :
            SetData(p, s, data)

RenderCreateSeriesMarkers ==
    \E p \in DOMAIN panes :
        \E s \in DOMAIN panes[p].series :
            CreateSeriesMarkers(p, s, <<MarkerTooltip>>)

RenderCreatePriceLine ==
    /\ PriceLineCount < MaxPriceLines
    /\ \E p \in DOMAIN panes :
           \E s \in DOMAIN panes[p].series :
               CreatePriceLine(p, s, NextPriceLine(panes[p].series[s].price_lines))

NextRender ==
    \/ RenderAddPane
    \/ RenderAddCandlestickSeries
    \/ RenderSetData
    \/ RenderCreateSeriesMarkers
    \/ RenderCreatePriceLine
    \/ ToHtml

SpecRender == InitRender /\ [][NextRender]_vars

(***************************************************************************)
(* Storing data: a chart is given one pane, the pane one line series, and  *)
(* the series is given data by set_data and update, markers and price      *)
(* lines (a series shares no list with another one).  The times fed        *)
(* are of every type to_unix_timestamp tells apart: int, bool, float, str  *)
(* (ISO-8601 or not) and None, which it has no case for.                   *)
(***************************************************************************)
\* a record of the {time, value} shape
ValuePoint(time) == <<Item(kTime, time), Item(kValue, FloatV(3))>>

\* a record without a time field
PointNoTime == <<Item(kValue, FloatV(3))>>

\* a record of no series' shape: a time and a colour, no value
PointNoValue == <<Item(kColor, StrV("red")), Item(kTime, FloatV(-3))>>

DataLists ==
    {<< >>,
     <<ValuePoint(IntV(1))>>,
     <<ValuePoint(FloatV(5)), ValuePoint(StrV("1970-01-01T00:00:02Z"))>>,
     <<ValuePoint(IntV(1)), PointNoTime>>,
     <<ValuePoint(IntV(1)), ValuePoint(None)>>,
     <<ValuePoint(StrV("yesterday"))>>}

Bars ==
    {ValuePoint(IntV(1)), ValuePoint(BoolV(TRUE)), PointNoValue, PointNoTime,
     ValuePoint(None)}

DataMarkerLists ==
    {<< >>, <<MarkerPlain>>, <<MarkerTooltip, MarkerIdOnly>>,
     <<MarkerPlain, MarkerBadTime>>}

PointCount ==
    SumSeq([p \in DOMAIN panes |->
               SumSeq([s \in DOMAIN panes[p].series |->
                          Len(panes[p].series[s].data)])])

InitData == InitChart(None)

DataAddPane ==
    /\ panes = << >>
    /\ AddPane(None)

DataAddLineSeries ==
    \E p \in DOMAIN panes :
        /\ panes[p].series = << >>
        /\ AddLineSeries(p, None)

DataSetData ==
    \E p \in DOMAIN panes :
        \E s \in DOMAIN panes[p].series, data \in DataLists : SetData(p, s, data)

DataUpdate ==
    /\ PointCount < MaxPoints
    /\ \E p \in DOMAIN panes :
           \E s \in DOMAIN panes[p].series, bar \in Bars : Update(p, s, bar)

DataCreateSeriesMarkers ==
    \E p \in DOMAIN panes :
        \E s \in DOMAIN panes[p].series, markers \in DataMarkerLists :
            CreateSeriesMarkers(p, s, markers)

DataCreatePriceLine ==
    /\ PriceLineCount < MaxPriceLines
    /\ \E p \in DOMAIN panes :
           \E s \in DOMAIN panes[p].series : CreatePriceLine(p, s, PriceLineSupport)

NextData ==
    \/ DataAddPane
    \/ DataAddLineSeries
    \/ DataSetData
    \/ DataUpdate
    \/ DataCreateSeriesMarkers
    \/ DataCreatePriceLine

SpecData == InitData /\ [][NextData]_vars

\* series.set_data(arr), arr a numpy array given by its rows: a list is not
\* what it is and it has no itertuples, columns or index, so that both
\* to_lwc_ohlc_data (Candlestick, Bar) and to_lwc_single_value_data (Line,
\* Area, Histogram, Baseline) hand it to _convert_numpy_to_ohlc.
SetDataArray(p, s, rows) ==
    LET r == ConvertNumpyToOhlc(rows, << >>)
        old == panes[p].series[s].data
    IN  /\ panes' = [panes EXCEPT ![p].series[s].data =
                         IF r.exc = "" THEN DataAfterSetData(old, r.data) ELSE old]
        /\ last' = [op |-> "set_data", exc |-> r.exc,
                    args |-> [pane |-> p, series |-> s, array |-> rows],
                    ret |-> None]
        /\ UNCHANGED <<options, default_pane, next_id, lwc_cached, lwc_loads, callers>>

(***************************************************************************)
(* Data of several forms: a chart of up to ShapeObjects panes, line series *)
(* and candlestick series, whose series are given record lists (value      *)
(* points, with and without colour, and OHLC points, with and without      *)
(* volume) and numeric arrays with rows of 2, 3, 5 and 6 numbers.          *)
(***************************************************************************)
ValueColorPoint(time) ==
    <<Item(kTime, time), Item(kValue, FloatV(3)), Item(kColor, StrV("red"))>>

OhlcVolumePoint(time) == OhlcPoint(time) \o <<Item(kVolume, FloatV(2000))>>

ShapeRecordLists ==
    {<<ValuePoint(IntV(1)), ValueColorPoint(FloatV(5))>>,
     <<OhlcPoint(IntV(1)), OhlcVolumePoint(IntV(2))>>}

\* the rows [time, value], [time, open, high, low, close(, volume)] and a
\* row of three numbers
Row2 == <<FloatV(2), FloatV(21)>>
Row3 == <<FloatV(2), FloatV(21), FloatV(22)>>
Row5 == <<FloatV(4), FloatV(20), FloatV(24), FloatV(18), FloatV(22)>>
Row6 == <<IntV(3), IntV(10), IntV(12), IntV(9), IntV(11), IntV(1000)>>

ShapeArrays == {<<Row2>>, <<Row5>>, <<Row6, Row5>>, <<Row2, Row3>>}

InitShapes == InitChart(None)

ShapeObjectsLeft == ShapeObjects - (next_id - 1)

ShapesAddPane ==
    /\ ShapeObjectsLeft >= 1
    /\ AddPane(None)

ShapesAddLineSeries ==
    /\ ShapeObjectsLeft >= 1
    /\ \E p \in DOMAIN panes : AddLineSeries(p, None)

ShapesAddCandlestickSeries ==
    /\ ShapeObjectsLeft >= 1
    /\ \E p \in DOMAIN panes : AddCandlestickSeries(p, None)

ShapesSetData ==
    \E p \in DOMAIN panes :
        \E s \in DOMAIN panes[p].series, data \in ShapeRecordLists :
            SetData(p, s, data)

ShapesSetDataArray ==
    \E p \in DOMAIN panes :
        \E s \in DOMAIN panes[p].series, rows \in ShapeArrays :
            SetDataArray(p, s, rows)

NextShapes ==
    \/ ShapesAddPane
    \/ ShapesAddLineSeries
    \/ ShapesAddCandlestickSeries
    \/ ShapesSetData
    \/ ShapesSetDataArray

SpecShapes == InitShapes /\ [][NextShapes]_vars

(***************************************************************************)
(* The marker tooltips plugin (plugins/marker_tooltips.py).  The table     *)
(* extract_marker_tooltips returns is a mapping whose keys are marker ids  *)
(* (values, here strings) and whose values are tooltip mappings.           *)
(***************************************************************************)
\* bool(v): None, zero, the empty string and the empty containers are false
Truthy(v) ==
    CASE v.t = "none" -> FALSE
      [] v.t = "int" -> v.i # 0
      [] v.t = "float" -> v.h # 0
      [] v.t = "bool" -> v.b
      [] v.t = "str" -> v.s # ""
      [] v.t = "dict" -> v.d # << >>
      [] v.t = "list" -> v.l # << >>

\* A table in which the first tooltip stored under an id stays.
TooltipStore_KeepFirst(tooltips, marker_id, tooltip) ==
    IF Has(tooltips, marker_id) THEN tooltips
    ELSE Put(tooltips, marker_id, DictV(tooltip.d))

\* tooltips[marker_id] = dict(tooltip)
TooltipStore(tooltips, marker_id, tooltip) ==
    Put(tooltips, marker_id, DictV(tooltip.d))

\* for marker in series.markers
RECURSIVE TooltipsOfMarkers(_, _)
TooltipsOfMarkers(markers, tooltips) ==
    IF markers = << >> THEN tooltips
    ELSE LET marker_id == Get(Head(markers), kId, None)
             tooltip == Get(Head(markers), kTooltip, None)
         IN  TooltipsOfMarkers(Tail(markers),
                 IF Truthy(marker_id) /\ Truthy(tooltip)
                 THEN TooltipStore(tooltips, marker_id, tooltip)
                 ELSE tooltips)

\* for series in pane.series
RECURSIVE TooltipsOfSeries(_, _)
TooltipsOfSeries(series, tooltips) ==
    IF series = << >> THEN tooltips
    ELSE TooltipsOfSeries(Tail(series),
                          TooltipsOfMarkers(Head(series).markers, tooltips))

extract_marker_tooltips(pane) == TooltipsOfSeries(pane.series, EmptyDict)

\* extract_marker_tooltips(chart.panes[p])
ExtractMarkerTooltips(p) ==
    /\ last' = [op |-> "extract_marker_tooltips", exc |-> "",
                args |-> [pane |-> p],
                ret |-> DictV(extract_marker_tooltips(panes[p]))]
    /\ UNCHANGED <<options, panes, default_pane, next_id, lwc_cached, lwc_loads, callers>>

(***************************************************************************)
(* Extracting tooltips: a chart of up to TooltipObjects panes and line     *)
(* series, whose series are given markers with and without id and tooltip, *)
(* two of them with the same id and different tooltips, one with an empty  *)
(* tooltip and one with an empty id.                                       *)
(***************************************************************************)
TooltipBuy == DictV(<<Item(kTitle, StrV("Buy Signal"))>>)

\* a marker with the id of MarkerTooltip and another tooltip
MarkerSameId ==
    <<Item(kTime, IntV(4)), Item(kId, StrV("trade-1")), Item(kTooltip, TooltipBuy)>>

\* a marker with an id and a tooltip without content
MarkerEmptyTooltip ==
    <<Item(kTime, IntV(5)), Item(kId, StrV("m-5")), Item(kTooltip, DictV(EmptyDict))>>

\* a marker with a tooltip and the empty string as id
MarkerEmptyId ==
    <<Item(kTime, IntV(6)), Item(kId, StrV("")), Item(kTooltip, TooltipSell)>>

\* a marker with a tooltip and no id
MarkerTooltipOnly ==
    <<Item(kTime, IntV(7)), Item(kTooltip, TooltipBuy)>>

TooltipMarkerLists ==
    {<<MarkerTooltip, MarkerSameId>>,
     <<MarkerSameId, MarkerPlain>>,
     <<MarkerTooltip>>,
     <<MarkerIdOnly, MarkerEmptyTooltip>>,
     <<MarkerEmptyId, MarkerTooltipOnly>>}

InitTooltips == InitChart(None)

TooltipObjectsLeft == TooltipObjects - (next_id - 1)

TooltipsAddPane ==
    /\ TooltipObjectsLeft >= 1
    /\ AddPane(None)

TooltipsAddLineSeries ==
    /\ TooltipObjectsLeft >= 1
    /\ \E p \in DOMAIN panes : AddLineSeries(p, None)

TooltipsCreateSeriesMarkers ==
    \E p \in DOMAIN panes :
        \E s \in DOMAIN panes[p].series, markers \in TooltipMarkerLists :
            CreateSeriesMarkers(p, s, markers)

TooltipsExtract == \E p \in DOMAIN panes : ExtractMarkerTooltips(p)

NextTooltips ==
    \/ TooltipsAddPane
    \/ TooltipsAddLineSeries
    \/ TooltipsCreateSeriesMarkers
    \/ TooltipsExtract

SpecTooltips == InitTooltips /\ [][NextTooltips]_vars

(***************************************************************************)
(* Rendering from several threads.  Each of MaxCallers threads calls       *)
(* to_html on the same chart up to MaxCalls times.  get_lwc_js is wrapped  *)
(* by functools.lru_cache: the wrapper looks the call up in its cache; on  *)
(* a miss it calls the function, which reads the packaged file, and only   *)
(* after the function has returned does it store the result.  The lookup   *)
(* and the store are each atomic, the read between them is not covered by  *)
(* any lock of the cache, so other threads run between the three steps.    *)
(* The packaged file is installed: the read succeeds.                      *)
(***************************************************************************)
InitConcurrent == \E opts \in {None, DictV(Dict1(kHeight, IntV(7)))} : InitChart(opts)

SetCaller(t, pc, calls) == [callers EXCEPT ![t] = [pc |-> pc, calls |-> calls]]

\* render_chart calls get_lwc_js(): the lru_cache wrapper's lookup.  On a hit
\* the cached text is returned at once; on a miss the wrapper goes on to
\* call the function.
CacheLookup(t) ==
    /\ callers[t].pc = "idle"
    /\ callers[t].calls < MaxCalls
    /\ callers' = SetCaller(t, IF lwc_cached THEN "has_text" ELSE "loading",
                            callers[t].calls)
    /\ UNCHANGED <<options, panes, default_pane, next_id, lwc_cached, lwc_loads, last>>

\* The body of get_lwc_js: files(...).joinpath(...).read_text(...)
ReadText(t) ==
    /\ callers[t].pc = "loading"
    /\ lwc_loads' = lwc_loads + 1
    /\ callers' = SetCaller(t, "loaded", callers[t].calls)
    /\ UNCHANGED <<options, panes, default_pane, next_id, lwc_cached, last>>

\* The lru_cache wrapper stores what the function returned.
CacheStore(t) ==
    /\ callers[t].pc = "loaded"
    /\ lwc_cached' = TRUE
    /\ callers' = SetCaller(t, "has_text", callers[t].calls)
    /\ UNCHANGED <<options, panes, default_pane, next_id, lwc_loads, last>>

\* The rest of render_chart, with the library text in hand.
RenderWithText(t) ==
    /\ callers[t].pc = "has_text"
    /\ LET r == render_chart
       IN  /\ options' = r.options
           /\ last' = [op |-> "to_html", exc |-> r.exc, args |-> [thread |-> t],
                       ret |-> r.doc]
    /\ callers' = SetCaller(t, "idle", callers[t].calls + 1)
    /\ UNCHANGED <<panes, default_pane, next_id, lwc_cached, lwc_loads>>

\* The chart gets its pane before any thread renders.
ConcurrentAddPane ==
    /\ panes = << >>
    /\ \A t \in Callers : callers[t] = [pc |-> "idle", calls |-> 0]
    /\ AddPane(None)

ConcurrentLookup == \E t \in Callers : CacheLookup(t)

ConcurrentRead == \E t \in Callers : ReadText(t)

ConcurrentStore == \E t \in Callers : CacheStore(t)

ConcurrentRender == \E t \in Callers : RenderWithText(t)

NextConcurrent ==
    \/ ConcurrentAddPane
    \/ ConcurrentLookup
    \/ ConcurrentRead
    \/ ConcurrentStore
    \/ ConcurrentRender

SpecConcurrent == InitConcurrent /\ [][NextConcurrent]_vars

(***************************************************************************)
(* Translating options: convert_options_to_js is applied to a mapping of   *)
(* up to MaxKeys keys in underscore_case (one of them with a digit before  *)
(* a letter, one with a leading underscore) or already in camelCase, whose *)
(* values are a number, a boolean, an enum spelling, another string, a     *)
(* list of mappings, or a nested mapping.  The translation is then applied *)
(* to its own result.                                                      *)
(***************************************************************************)
ConvertKeys == {kUpColor, kVisible, kTimeVisible, kEma20d, kUnderA, kUpColorJs}

ConvertLeaves ==
    {IntV(2), BoolV(TRUE), StrV("above_bar"), StrV("#00ff00"),
     ListV(<<DictV(Dict1(kUpColor, StrV("in_bar")))>>)}

ConvertValues ==
    ConvertLeaves
    \cup {DictV(Dict2(kTimeVisible, StrV("arrow_up"), kLineWidth, IntV(2))),
          DictV(Dict1(kEma20d, BoolV(FALSE)))}

\* the mappings of n items, no key twice
RECURSIVE MappingsOf(_)
MappingsOf(n) ==
    IF n = 0 THEN {EmptyDict}
    ELSE UNION {{Append(d, Item(key, value)) :
                    key \in ConvertKeys \ Keys(d), value \in ConvertValues}
                : d \in MappingsOf(n - 1)}

InitConvert ==
    \E n \in 0 .. MaxKeys : \E opts \in MappingsOf(n) : InitChart(DictV(opts))

\* convert_options_to_js(chart.options)
ConvertOptionsToJs ==
    /\ last' = [op |-> "convert_options_to_js", exc |-> "",
                args |-> [options |-> DictV(options)],
                ret |-> DictV(convert_options_to_js(options))]
    /\ UNCHANGED <<options, panes, default_pane, next_id, lwc_cached, lwc_loads, callers>>

\* convert_options_to_js(js_options), js_options being the mapping the
\* previous call returned
ConvertResult ==
    /\ last.op = "convert_options_to_js"
    /\ last' = [op |-> "convert_options_to_js", exc |-> "",
                args |-> [options |-> last.ret],
                ret |-> DictV(convert_options_to_js(last.ret.d))]
    /\ UNCHANGED <<options, panes, default_pane, next_id, lwc_cached, lwc_loads, callers>>

NextConvert == ConvertOptionsToJs \/ ConvertResult

SpecConvert == InitConvert /\ [][NextConvert]_vars

(***************************************************************************)
(* Properties.                                                             *)
(***************************************************************************)
\* The last call was to_html and it returned a document.
Rendered == last.op = "to_html" /\ last.exc = ""

\* The statements of the given kind in a script, in order.
Statements(script, kind) == SelectSeq(script, LAMBDA st : st.stmt = kind)

\* The heights of the pane containers of a document.
DivHeights(doc) == [i \in DOMAIN doc.pane_divs |-> doc.pane_divs[i].height]

TotalRatio == SumSeq([i \in DOMAIN panes |-> HeightRatio(panes[i])])

\* C1: when a chart with N >= 1 panes is rendered, the heights of its N pane
\* containers sum exactly to the chart's height, and the last one is the
\* chart's height minus the sum of the N-1 before it.
C1_HeightsSumToTotal ==
    (Rendered /\ panes # << >>) =>
        LET hs == DivHeights(last.ret)
            N == Len(panes)
        IN  /\ Len(hs) = N
            /\ SumSeq(hs) = ChartHeight
            /\ hs[N] = ChartHeight - SumSeq(SubSeq(hs, 1, N - 1))

\* A rendered chart of three panes in which the first pane's share of the
\* height is not a whole number, so that rounding took place.
C1_Witness ==
    /\ Rendered
    /\ Len(panes) = 3
    /\ TotalRatio # 0
    /\ (ChartHeight * HeightRatio(panes[1])) % Abs(TotalRatio) # 0

\* C2: when a chart with N >= 1 panes is rendered, each of the N pane heights,
\* the last pane's remainder included, is >= 0.
C2_HeightsNonNegative ==
    (Rendered /\ panes # << >>) =>
        \A i \in DOMAIN last.ret.pane_divs : last.ret.pane_divs[i].height >= 0

\* C3: rendering a chart that Chart(options) and add_pane(options) accepted
\* returns a document and raises nothing, whatever the height ratios.
C3_RenderNeverRaises == last.op = "to_html" => last.exc = ""

\* C7: rendering a chart with zero panes returns a document that is the
\* placeholder: a container of the chart's width and height with the
\* 'No data to display' notice, and no createChart statement.
C7_EmptyChartPlaceholder ==
    (last.op = "to_html" /\ panes = << >>) =>
        /\ last.exc = ""
        /\ last.ret.placeholder
        /\ last.ret.container = [sized |-> TRUE, width |-> ChartWidth,
                                 height |-> ChartHeight]
        /\ last.ret.notice = "No data to display"
        /\ Statements(last.ret.script, "createChart") = << >>

\* An empty chart with a width and a height of its own has been rendered.
C7_Witness ==
    /\ last.op = "to_html"
    /\ panes = << >>
    /\ Has(options, kWidth)
    /\ ChartWidth # DefaultWidth
    /\ ChartHeight # DefaultHeight

\* C8: the script of a rendered chart with N >= 2 panes holds exactly N
\* visible-range subscriptions, one on each pane's instance, and the handler
\* of pane i's subscription sets the range on exactly the N-1 other panes'
\* instances, not on pane i's; with N = 1 there is no subscription.
C8_SyncMesh ==
    (Rendered /\ panes # << >>) =>
        LET subs == Statements(last.ret.script, "subscribeVisibleLogicalRangeChange")
            N == Len(panes)
        IN  IF N = 1 THEN subs = << >>
            ELSE /\ Len(subs) = N
                 /\ \A i \in 1 .. N :
                       /\ Cardinality({n \in DOMAIN subs : subs[n].var = panes[i].id}) = 1
                       /\ \A n \in DOMAIN subs :
                             subs[n].var = panes[i].id =>
                                /\ Len(subs[n].targets) = N - 1
                                /\ {subs[n].targets[m] : m \in DOMAIN subs[n].targets}
                                     = {panes[j].id : j \in (1 .. N) \ {i}}

\* A chart of three panes has been rendered.
C8_Witness == Rendered /\ Len(panes) = 3

\* The pane of the chart whose id is the default pane's.
DefaultPanes == {i \in DOMAIN panes : default_pane # None /\ panes[i].id = default_pane.i}

\* C4: every Chart.add_series call that omits pane_index returns a series of
\* the requested kind, which it has added as the last series of the default
\* pane, a pane of the chart.
C4_DefaultPaneSeries ==
    (last.op = "Chart.add_series" /\ last.args.pane_index = None) =>
        /\ last.exc = ""
        /\ Cardinality(DefaultPanes) = 1
        /\ \A i \in DefaultPanes :
              /\ panes[i].series # << >>
              /\ LET series == panes[i].series[Len(panes[i].series)]
                 IN  /\ IntV(series.id) = last.ret
                     /\ series.series_type = last.args.series_type

\* C5: Chart.add_series with an explicit pane_index that is negative or not
\* below the pane count raises IndexError and changes nothing: the panes,
\* with their series, and the default pane are as before the call.
C5_OutOfRangeIndex ==
    [][(/\ last'.op = "Chart.add_series"
        /\ last'.args.pane_index # None
        /\ (last'.args.pane_index.i < 0 \/ last'.args.pane_index.i >= Len(panes)))
       => (/\ last'.exc = "IndexError"
           /\ panes' = panes
           /\ default_pane' = default_pane
           /\ next_id' = next_id)]_vars

\* Chart.add_series was called with pane_index -1 on a chart that has a pane
\* holding a series.
C5_Witness ==
    /\ last.op = "Chart.add_series"
    /\ last.args.pane_index = IntV(-1)
    /\ last.exc = "IndexError"
    /\ SeriesCount >= 1

\* C6: Pane.add_series(kind, options) returns a series of the requested kind
\* that carries the given options and is the last series of the pane.
C6_PaneAddSeries ==
    last.op = "Pane.add_series" =>
        /\ last.exc = ""
        /\ panes[last.args.pane].series # << >>
        /\ LET all == panes[last.args.pane].series
               series == all[Len(all)]
           IN  /\ IntV(series.id) = last.ret
               /\ series.series_type = last.args.series_type
               /\ series.options =
                     (IF last.args.options = None THEN EmptyDict
                      ELSE last.args.options.d)

\* The markers stored in pane p that have both an id and a tooltip.
TooltipMarkers(pane) ==
    {m \in UNION {{pane.series[s].markers[n] : n \in DOMAIN pane.series[s].markers}
                  : s \in DOMAIN pane.series}
       : Has(m, kId) /\ Has(m, kTooltip)}

\* The series of the chart whose id is given.
SeriesOfId(id) ==
    UNION {{panes[p].series[s] : s \in {x \in DOMAIN panes[p].series
                                          : panes[p].series[x].id = id}}
           : p \in DOMAIN panes}

\* C9: in a rendered document, no marker handed to a series' setMarkers call
\* has a tooltip field, and each of them has every other field of the stored
\* marker it stands for, under the field's camelCase name.
C9_NoTooltipInPayload ==
    Rendered =>
        LET calls == Statements(last.ret.script, "setMarkers")
        IN  \A c \in DOMAIN calls :
               \A series \in SeriesOfId(calls[c].var) :
                  /\ Len(calls[c].markers) = Len(series.markers)
                  /\ \A n \in DOMAIN calls[c].markers :
                        /\ ~Has(calls[c].markers[n], kTooltip)
                        /\ \A key \in Keys(series.markers[n]) \ {kTooltip} :
                              Has(calls[c].markers[n], to_camel_case(key))

\* C10: in a rendered document, each pane that stores a marker with both an id
\* and a tooltip has an overlay initialization, whose lookup table maps that
\* marker's id to its tooltip; a pane without such a marker has none.
C10_TooltipOverlay ==
    Rendered =>
        \A p \in DOMAIN panes :
           LET overlays == SelectSeq(last.ret.script,
                               LAMBDA st : st.stmt = "markerTooltips"
                                           /\ st.chart = panes[p].id)
           IN  IF TooltipMarkers(panes[p]) = {} THEN overlays = << >>
               ELSE /\ Len(overlays) = 1
                    /\ \A m \in TooltipMarkers(panes[p]) :
                          Has(overlays[1].table, Get(m, kId, None).s)

\* The series of the chart, pane after pane.
AllSeries ==
    UNION {{panes[p].series[n] : n \in DOMAIN panes[p].series} : p \in DOMAIN panes}

\* The statements of the given kind on the given variable, in order.
StatementsOn(script, kind, var) ==
    SelectSeq(script, LAMBDA st : st.stmt = kind /\ st.var = var)

\* C11: in a rendered document, each series has exactly one price-line
\* creation statement per price line stored on it, in the order the price
\* lines were added, each carrying the price line's options translated to
\* camelCase.
C11_PriceLineStatements ==
    Rendered =>
        \A series \in AllSeries :
           LET calls == StatementsOn(last.ret.script, "createPriceLine", series.id)
           IN  /\ Len(calls) = Len(series.price_lines)
               /\ \A n \in DOMAIN calls :
                      calls[n].options = convert_options_to_js(series.price_lines[n])

\* C12: rendering leaves the chart as it was: the chart's options, the
\* nested time_scale mapping included, the pane list, and every series with
\* its options, data, markers and price lines are after to_html what they
\* were before it.
C12_RenderLeavesChartUnchanged ==
    [][last'.op = "to_html" =>
          /\ options' = options
          /\ panes' = panes
          /\ default_pane' = default_pane]_vars

\* A chart with a time_scale mapping in its options, two panes, and a series
\* that has data, a marker with a tooltip and a price line, has been rendered.
C12_Witness ==
    /\ Rendered
    /\ Len(panes) >= 2
    /\ Has(options, kTimeScale)
    /\ \E series \in AllSeries :
           /\ series.data # << >>
           /\ series.price_lines # << >>
           /\ \E n \in DOMAIN series.markers : Has(series.markers[n], kTooltip)

\* The translated key under which a pane's options hold the time scale.
kTimeScaleJs == to_camel_case(kTimeScale)

\* C13: in a rendered document of a chart with N >= 1 panes, the options of
\* every pane's createChart call carry the chart's width and the pane's
\* computed height; for every pane but the last, their time scale has
\* visible false and every other sub-option of the chart's own time scale;
\* for the last pane, their time scale is the chart's own, unmodified, and
\* absent when the chart has none.
C13_PaneOptions ==
    (Rendered /\ panes # << >>) =>
        LET creates == Statements(last.ret.script, "createChart")
            N == Len(panes)
            heights == calculate_pane_heights(panes, ChartHeight).heights
            chart_value == Get(options, kTimeScale, DictV(EmptyDict))
            chart_ts == IF chart_value.t = "dict" THEN chart_value.d ELSE EmptyDict
        IN  /\ Len(creates) = N
            /\ \A i \in 1 .. N :
                  LET opts == creates[i].options
                      value == Get(opts, kTimeScaleJs, DictV(EmptyDict))
                      ts == IF value.t = "dict" THEN value.d ELSE EmptyDict
                  IN  /\ Get(opts, kWidth, None) = IntV(ChartWidth)
                      /\ Get(opts, kHeight, None) = IntV(heights[i])
                      /\ IF i < N
                         THEN /\ Has(opts, kTimeScaleJs)
                              /\ Get(ts, kVisible, None) = BoolV(FALSE)
                              /\ Keys(ts) = {to_camel_case(key) : key \in Keys(chart_ts)}
                                               \cup {kVisible}
                              /\ \A key \in Keys(chart_ts) \ {kVisible} :
                                    Get(ts, to_camel_case(key), None)
                                        = Get(chart_ts, key, None)
                         ELSE /\ Has(opts, kTimeScaleJs) = Has(options, kTimeScale)
                              /\ value.t = chart_value.t
                              /\ value.t # "dict" => value = chart_value
                              /\ Keys(ts) = {to_camel_case(key) : key \in Keys(chart_ts)}
                              /\ \A key \in Keys(chart_ts) :
                                    Get(ts, to_camel_case(key), None)
                                        = Get(chart_ts, key, None)

\* A chart of three panes whose options hold a time scale with a sub-option
\* besides visible has been rendered.
C13_Witness ==
    /\ Rendered
    /\ Len(panes) = 3
    /\ Get(options, kTimeScale, None).t = "dict"
    /\ Has(Get(options, kTimeScale, DictV(EmptyDict)).d, kTimeVisible)

\* C14: the script of a rendered chart with at least one pane has exactly one
\* createChart call per pane and, per series, exactly one series-creation
\* call and exactly one setData call, whose payload has as many points as
\* the series stores.
C14_StatementCounts ==
    (Rendered /\ panes # << >>) =>
        /\ Len(Statements(last.ret.script, "createChart")) = Len(panes)
        /\ \A p \in DOMAIN panes :
              Len(StatementsOn(last.ret.script, "createChart", panes[p].id)) = 1
        /\ Len(Statements(last.ret.script, "addSeries")) = SeriesCount
        /\ Len(Statements(last.ret.script, "setData")) = SeriesCount
        /\ \A series \in AllSeries :
              LET sets == StatementsOn(last.ret.script, "setData", series.id)
              IN  /\ Len(StatementsOn(last.ret.script, "addSeries", series.id)) = 1
                  /\ Len(sets) = 1
                  /\ Len(sets[1].data) = Len(series.data)

\* A chart has been rendered in which one series stores three points and
\* another stores none.
C14_Witness ==
    /\ Rendered
    /\ \E series \in AllSeries : Len(series.data) = 3
    /\ \E series \in AllSeries : series.data = << >>

\* Whether a stored record is the given input record with nothing but its
\* time normalized: the same fields in the same order, the same values, and
\* for the time the integer that the input's time stands for.
NormalizedFrom(stored, input) ==
    /\ Len(stored) = Len(input)
    /\ \A n \in DOMAIN input :
          /\ stored[n].k = input[n].k
          /\ IF input[n].k = kTime
             THEN /\ stored[n].v.t \in {"int", "bool"}
                  /\ stored[n].v = to_unix_timestamp(input[n].v).v
             ELSE stored[n].v = input[n].v

\* C15: after create_series_markers(series, M) has returned, the series
\* stores exactly len(M) markers, in M's order, each the input marker with
\* its id and tooltip and every other field intact and its time normalized,
\* whatever markers the series stored before.
C15_MarkersReplaced ==
    (last.op = "create_series_markers" /\ last.exc = "") =>
        LET stored == panes[last.args.pane].series[last.args.series].markers
            M == last.args.markers
        IN  /\ Len(stored) = Len(M)
            /\ \A n \in DOMAIN M : NormalizedFrom(stored[n], M[n])

\* create_series_markers has returned from a call with two markers, the
\* first with an id, a tooltip and a float time, the second with an ISO-8601
\* time, on a series that stores data and a price line.
C15_Witness ==
    /\ last.op = "create_series_markers"
    /\ last.exc = ""
    /\ last.args.markers = <<MarkerTooltip, MarkerIdOnly>>
    /\ LET series == panes[last.args.pane].series[last.args.series]
       IN  series.data # << >> /\ series.price_lines # << >>

\* C16: after set_data(D) has returned, the series' data is the conversion of
\* D and nothing else: one point per record of D, in D's order, each the
\* record with its time normalized; no point stored before the call is left.
C16_DataReplaced ==
    (last.op = "set_data" /\ last.exc = "") =>
        LET stored == panes[last.args.pane].series[last.args.series].data
            D == last.args.data
        IN  /\ Len(stored) = Len(D)
            /\ \A n \in DOMAIN D : NormalizedFrom(stored[n], D[n])

\* set_data has returned from a call with two records, whose times are a
\* float and an ISO-8601 string.
C16_Witness ==
    /\ last.op = "set_data"
    /\ last.exc = ""
    /\ Len(last.args.data) = 2
    /\ Get(last.args.data[1], kTime, None).t = "float"
    /\ Get(last.args.data[2], kTime, None).t = "str"

\* C17: an update(bar) that returns appends exactly one point, the bar with
\* its time normalized and whatever its shape, after the points stored
\* before, which stay as they were, like the markers, the price lines and the
\* caller's bar mapping; no update call, returning or raising, makes the data
\* shorter.
C17_UpdateAppends ==
    [][last'.op = "update" =>
          LET old == panes[last'.args.pane].series[last'.args.series]
              new == panes'[last'.args.pane].series[last'.args.series]
              bar == last'.args.bar
          IN  /\ Len(new.data) >= Len(old.data)
              /\ SubSeq(new.data, 1, Len(old.data)) = old.data
              /\ last'.exc = "" =>
                    /\ Len(new.data) = Len(old.data) + 1
                    /\ NormalizedFrom(new.data[Len(new.data)], bar)
                    /\ new.markers = old.markers
                    /\ new.price_lines = old.price_lines
                    /\ last'.ret = DictV(bar)
                    /\ panes' = [panes EXCEPT ![last'.args.pane]
                                      .series[last'.args.series].data = new.data]
      ]_vars

\* update has returned from a call whose bar has a float time and no value,
\* on a series that stores markers, a price line and a point from before.
C17_Witness ==
    /\ last.op = "update"
    /\ last.exc = ""
    /\ last.args.bar = PointNoValue
    /\ LET series == panes[last.args.pane].series[last.args.series]
       IN  /\ Len(series.data) >= 2
           /\ series.markers # << >>
           /\ series.price_lines # << >>

\* C18: a set_data call given a list in which some record has no time field
\* raises, and stores no point without a time field.
C18_MissingTimeRaises ==
    (/\ last.op = "set_data"
     /\ \E n \in DOMAIN last.args.data : ~Has(last.args.data[n], kTime))
    => /\ last.exc # ""
       /\ LET stored == panes[last.args.pane].series[last.args.series].data
          IN  \A n \in DOMAIN stored : Has(stored[n], kTime)

C20_KeysCamelCased ==
    last.op = "convert_options_to_js" =>
        LET Camel(key) ==
                LET parts == SplitUnderscore(key, << >>, << >>)
                    Cap(p) == IF p = << >> THEN p ELSE <<ToUpper(Head(p))>> \o Tail(p)
                    Joined[n \in 0 .. Len(parts)] ==
                        IF n <= 1 THEN IF n = 0 THEN << >> ELSE parts[1]
                        ELSE Joined[n - 1] \o Cap(parts[n])
                IN  Joined[Len(parts)]
            Enum(str) ==
                IF str = "above_bar" THEN "aboveBar"
                ELSE IF str = "below_bar" THEN "belowBar"
                ELSE IF str = "in_bar" THEN "inBar"
                ELSE IF str = "arrow_up" THEN "arrowUp"
                ELSE IF str = "arrow_down" THEN "arrowDown"
                ELSE str
            Leaf(v) == IF v.t = "str" THEN StrV(Enum(v.s)) ELSE v
            \* a mapping without nested mappings and its translation
            Inner(in, out) ==
                /\ \A i \in DOMAIN in :
                      /\ Has(out, Camel(in[i].k))
                      /\ Get(out, Camel(in[i].k), None) = Leaf(in[i].v)
                /\ \A o \in DOMAIN out : \E i \in DOMAIN in : out[o].k = Camel(in[i].k)
            in == last.args.options.d
            out == last.ret.d
        IN  /\ \A i \in DOMAIN in :
                  /\ Has(out, Camel(in[i].k))
                  /\ LET v == Get(out, Camel(in[i].k), None)
                     IN  IF in[i].v.t = "dict"
                         THEN v.t = "dict" /\ Inner(in[i].v.d, v.d)
                         ELSE v = Leaf(in[i].v)
            /\ \A o \in DOMAIN out : \E i \in DOMAIN in : out[o].k = Camel(in[i].k)

\* The keys of a mapping and of the mappings nested in it.
RECURSIVE AllKeys(_)
AllKeys(d) ==
    IF d = << >> THEN {}
    ELSE {Head(d).k} \cup AllKeys(Tail(d))
           \cup (IF Head(d).v.t = "dict" THEN AllKeys(Head(d).v.d) ELSE {})

HasUnderscore(key) == \E i \in DOMAIN key : key[i] = "_"

\* C21: a key without an underscore is translated to itself, so a mapping
\* none of whose keys (nested ones included) has an underscore keeps its
\* keys, in their order; and translating the result of a translation gives
\* that result again: convert_options_to_js(convert_options_to_js(m)) is
\* convert_options_to_js(m) for every mapping m.
C21_TranslationIdempotent ==
    [][(last'.op = "convert_options_to_js")
         => LET in == last'.args.options.d
                out == last'.ret.d
            IN  /\ (\A key \in AllKeys(in) : ~HasUnderscore(key))
                      => /\ Keys(out) = Keys(in)
                         /\ AllKeys(out) = AllKeys(in)
                /\ (last.op = "convert_options_to_js" /\ last'.args.options = last.ret)
                      => last'.ret = last.ret]_vars

\* The translation was applied to a translated mapping: "aboveBar" is a
\* value only a translation produces, and "upColor" is a key that an input
\* key "up_color" became.
C21_Witness ==
    /\ last.op = "convert_options_to_js"
    /\ \A key \in AllKeys(last.args.options.d) : ~HasUnderscore(key)
    /\ Has(last.args.options.d, kUpColorJs)
    /\ Get(last.args.options.d, kUpColorJs, None) = StrV("aboveBar")
    /\ ~Has(options, kUpColorJs)
    /\ last.ret = last.args.options

\* C30: the translated mapping has as many keys as the input, at every
\* nesting level: no two different input keys become one key.
C30_KeyCountPreserved ==
    last.op = "convert_options_to_js" =>
        /\ Len(last.ret.d) = Len(last.args.options.d)
        /\ \A i \in DOMAIN last.args.options.d :
              LET value == last.args.options.d[i].v
                  key == to_camel_case(last.args.options.d[i].k)
              IN  value.t = "dict" =>
                      Len(Get(last.ret.d, key, None).d) = Len(value.d)

\* C22: Chart.width is the 'width' option when that is an integer and 800
\* when the option is absent or of another type (a string, a float);
\* Chart.height likewise with 'height' and 600.  A render uses these two
\* numbers: the placeholder's container has them as its size, every pane
\* container and every pane's createChart options have the width, and the
\* pane heights are allocated out of the height.
C22_WidthHeightDefaults ==
    LET w == Get(options, kWidth, None)
        h == Get(options, kHeight, None)
        width == IF w.t = "int" THEN w.i ELSE 800
        height == IF h.t = "int" THEN h.i ELSE 600
    IN  /\ (w.t # "bool" /\ h.t # "bool") =>
              /\ ChartWidth = width
              /\ ChartHeight = height
              /\ (Rendered /\ panes = << >>) =>
                    /\ last.ret.container.width = width
                    /\ last.ret.container.height = height
              /\ (Rendered /\ panes # << >>) =>
                    /\ \A i \in DOMAIN last.ret.pane_divs :
                          last.ret.pane_divs[i].width = width
                    /\ \A i \in DOMAIN last.ret.script :
                          last.ret.script[i].stmt = "createChart" =>
                              Get(last.ret.script[i].options, kWidth, None) = IntV(width)
                    /\ SumSeq(DivHeights(last.ret)) = height

\* A chart whose 'height' is a string and whose 'width' is a float has been
\* rendered with two panes.
C22_Witness ==
    /\ Rendered
    /\ Len(panes) = 2
    /\ Get(options, kHeight, None).t = "str"
    /\ Get(options, kWidth, None).t = "float"
    /\ last.ret.pane_divs[1].width = 800
    /\ SumSeq(DivHeights(last.ret)) = 600

\* C23: however the render calls of several threads interleave, the library
\* text is read from the package at most once: a call that finds the text
\* cached does not read it, and the cache, once filled, stays filled.
C23_LoadedAtMostOnce == lwc_loads <= 1

\* C24: in a rendered chart of N >= 2 panes every pane but the last has the
\* height floor(H * r_i / R), H being the chart's height, r_i the pane's
\* ratio and R the sum of the ratios; the one pane of a one-pane chart has
\* the height H whatever its ratio.
C24_FloorOfShare ==
    (Rendered /\ panes # << >>) =>
        LET hs == DivHeights(last.ret)
            N == Len(panes)
            R == TotalRatio
            Floor(a, b) == IF b > 0 THEN a \div b ELSE (0 - a) \div (0 - b)
        IN  /\ N = 1 => hs[1] = ChartHeight
            /\ \A i \in 1 .. N - 1 :
                  hs[i] = Floor(ChartHeight * HeightRatio(panes[i]), R)

\* The places of a script where a statement of the given kind declares or
\* uses the given variable.
Places(script, kind, var) ==
    {n \in DOMAIN script : script[n].stmt = kind /\ script[n].var = var}

\* C25: in the script of a rendered chart the pane blocks come in the order
\* in which the panes were added; a pane's createChart comes before every
\* statement of that pane's series; the series of a pane come in the order
\* in which they were added, each with its creation, then its setData, then
\* its setMarkers if it has markers; every synchronization statement comes
\* after every pane's createChart; and no statement uses a chart or series
\* variable before the statement that declares it.
C25_StatementOrder ==
    (Rendered /\ panes # << >>) =>
        LET script == last.ret.script
            Create(p) == Places(script, "createChart", panes[p].id)
            Add(p, n) == Places(script, "addSeries", panes[p].series[n].id)
            Data(p, n) == Places(script, "setData", panes[p].series[n].id)
            Marks(p, n) == Places(script, "setMarkers", panes[p].series[n].id)
            Syncs == {n \in DOMAIN script :
                         script[n].stmt = "subscribeVisibleLogicalRangeChange"}
            Before(A, B) == \A a \in A : \A b \in B : a < b
        IN  /\ \A p \in DOMAIN panes :
                  /\ Create(p) # {}
                  /\ p < Len(panes) => Before(Create(p), Create(p + 1))
                  /\ Before(Create(p), Syncs)
                  /\ \A n \in DOMAIN panes[p].series :
                        /\ Add(p, n) # {} /\ Data(p, n) # {}
                        /\ Before(Create(p), Add(p, n))
                        /\ Before(Add(p, n), Data(p, n))
                        /\ Before(Data(p, n), Marks(p, n))
                        /\ \A a \in Add(p, n) : script[a].chart = panes[p].id
                        /\ n < Len(panes[p].series)
                              => Before(Data(p, n) \cup Marks(p, n), Add(p, n + 1))
                        /\ p < Len(panes)
                              => Before(Add(p, n) \cup Data(p, n) \cup Marks(p, n),
                                        Create(p + 1))
                        /\ Before(Add(p, n) \cup Data(p, n) \cup Marks(p, n), Syncs)
            /\ \A n \in Syncs :
                  \A v \in {script[n].var} \cup {script[n].targets[k] :
                                                     k \in DOMAIN script[n].targets} :
                      \E c \in 1 .. n - 1 :
                          script[c].stmt = "createChart" /\ script[c].var = v

\* A rendered chart of two panes, the first with a series that has data and
\* markers: its script has pane blocks, series statements of all three
\* kinds and synchronization statements.
C25_Witness ==
    /\ Rendered
    /\ Len(panes) = 2
    /\ Len(panes[1].series) = 1
    /\ panes[1].series[1].data # << >>
    /\ panes[1].series[1].markers # << >>
    /\ Len(last.ret.script) = 7

\* The markers of a pane: those of its first series in their order, then
\* those of its second series, and so on.
RECURSIVE PaneMarkers(_)
PaneMarkers(series) ==
    IF series = << >> THEN << >> ELSE Head(series).markers \o PaneMarkers(Tail(series))

\* A marker that has an id and a tooltip: both fields are there and neither
\* is empty.
HasIdAndTooltip(marker) ==
    /\ Has(marker, kId) /\ Get(marker, kId, None) \notin {None, StrV("")}
    /\ Has(marker, kTooltip)
    /\ Get(marker, kTooltip, None) \notin {None, DictV(EmptyDict)}

\* C26: the table extract_marker_tooltips(pane) returns has an entry for
\* exactly the ids for which some marker of the pane has both an id and a
\* tooltip; when several such markers share an id, the entry holds the
\* tooltip of the last of them, in series order and then marker order; a
\* marker that lacks an id or a tooltip adds no entry, and the call leaves
\* every series' marker list as it was.
C26_TooltipTable ==
    [][(last'.op = "extract_marker_tooltips")
         => LET all == PaneMarkers(panes[last'.args.pane].series)
                with == {n \in DOMAIN all : HasIdAndTooltip(all[n])}
                table == last'.ret.d
            IN  /\ panes' = panes
                /\ Keys(table) = {Get(all[n], kId, None) : n \in with}
                /\ \A n \in with :
                      (\A later \in with :
                           later > n => Get(all[later], kId, None) # Get(all[n], kId, None))
                        => Get(table, Get(all[n], kId, None), None)
                               = Get(all[n], kTooltip, None)]_vars

\* The table of a pane whose first series has a marker "trade-1" with one
\* tooltip and whose second series has a marker "trade-1" with another, and
\* which also has a marker without a tooltip: one entry, the second tooltip.
C26_Witness ==
    /\ last.op = "extract_marker_tooltips"
    /\ Len(panes[last.args.pane].series) = 2
    /\ Len(panes[last.args.pane].series[1].markers) = 1
    /\ panes[last.args.pane].series[1].markers[1] # MarkerSameId
    /\ Get(panes[last.args.pane].series[1].markers[1], kId, None) = StrV("trade-1")
    /\ Len(panes[last.args.pane].series[2].markers) = 2
    /\ panes[last.args.pane].series[2].markers[1] = MarkerSameId
    /\ panes[last.args.pane].series[2].markers[2] = MarkerPlain
    /\ last.ret = DictV(<<Item(StrV("trade-1"), TooltipBuy)>>)

ValueKinds == {"Line", "Area", "Histogram", "Baseline"}

OhlcKinds == {"Candlestick", "Bar"}

\* C27: whatever form the data was given in (a list of records, a numeric
\* array with rows of 2 or of at least 5 numbers), the points set_data has
\* stored in a series of a value kind have the fields time and value and at
\* most color besides, and those stored in a series of an OHLC kind have the
\* fields time, open, high, low and close and at most volume besides.
C27_StoredShapeMatchesKind ==
    \A p \in DOMAIN panes : \A n \in DOMAIN panes[p].series :
        LET series == panes[p].series[n]
        IN  \A i \in DOMAIN series.data :
                IF series.series_type \in ValueKinds
                THEN /\ {kTime, kValue} \subseteq Keys(series.data[i])
                     /\ Keys(series.data[i]) \subseteq {kTime, kValue, kColor}
                ELSE /\ {kTime, kOpen, kHigh, kLow, kClose} \subseteq Keys(series.data[i])
                     /\ Keys(series.data[i])
                            \subseteq {kTime, kOpen, kHigh, kLow, kClose, kVolume}

\* C28: create_series_markers stores all of its markers or none: when the
\* call raises, the marker list of the series is the one stored before the
\* call.
C28_MarkersAllOrNothing ==
    [][(last'.op = "create_series_markers" /\ last'.exc # "")
         => panes'[last'.args.pane].series[last'.args.series].markers
                = panes[last'.args.pane].series[last'.args.series].markers]_vars

\* C29: the default pane is not a pane add_pane created: the first
\* add_series without a pane_index appends a new pane at the end of
\* chart.panes, also when add_pane has been called before, and add_pane
\* never changes which pane is the default one.  Once there is a default
\* pane it stays the same pane, it is in chart.panes exactly once, and it
\* keeps its position: no call removes a pane or changes the panes' order.
C29_DefaultPaneStable ==
    [][LET WithId(ps, id) == {i \in DOMAIN ps : ps[i].id = id}
       IN  /\ Len(panes') >= Len(panes)
           /\ \A i \in DOMAIN panes : panes'[i].id = panes[i].id
           /\ default_pane # None => default_pane' = default_pane
           /\ default_pane' # None => Cardinality(WithId(panes', default_pane'.i)) = 1
           /\ last'.op = "add_pane" => default_pane' = default_pane
           /\ (default_pane = None /\ default_pane' # None) =>
                 /\ last'.op = "Chart.add_series" /\ last'.args.pane_index = None
                 /\ Len(panes') = Len(panes) + 1
                 /\ panes'[Len(panes')].id = default_pane'.i
                 /\ WithId(panes, default_pane'.i) = {}
           /\ (/\ default_pane = None
               /\ last'.op = "Chart.add_series"
               /\ last'.args.pane_index = None
               /\ last' # last)
                 => default_pane' # None]_vars

\* add_pane, then add_series without a pane_index, then add_pane again: the
\* default pane is the second of three panes.
C29_Witness ==
    /\ default_pane # None
    /\ Len(panes) = 3
    /\ panes[2].id = default_pane.i
    /\ last.op = "add_pane"

====
